---------------------------- MODULE Spec2Model ----------------------------
(***************************************************************************)
(* Avro2JSONSchemaConverter (src/src/index.js): the conversion of a        *)
(* resolved avsc type tree into a JSON-schema fragment.                    *)
(*                                                                         *)
(* JavaScript values are modelled as follows.                              *)
(*   - A string on which the code computes (typeName, a constructor name,  *)
(*     a method name, a registry key) is a sequence of atoms, where ":"    *)
(*     and "Type" are atoms of their own, so that split(':') and           *)
(*     replace('Type', '') are computed, not assumed.                      *)
(*   - A number is a double holding an integer: a sign and the set of the  *)
(*     positions of its 1 bits; arithmetic rounds to 53 significant bits.  *)
(*   - A fragment is a record of its own keys.  The one object that can be *)
(*     returned twice (by a caller's logical-type function that returns    *)
(*     the same object on every call) lives in the variable sharedObject   *)
(*     and is referred to by Ref; every other fragment is a fresh object   *)
(*     and is modelled by its value.                                       *)
(*   - An exception is the value Throw(kind), which every caller hands on. *)
(***************************************************************************)
EXTENDS Integers, Sequences, FiniteSets

(***************************************************************************)
(* Bounds of the model.                                                    *)
(***************************************************************************)
MaxSize == 2          \* sizes of a fixed type: 1..MaxSize
MaxFields == 2        \* fields of a record: 1..MaxFields
MaxMembers == 2       \* members of a union: 2..MaxMembers (at least 2)
MaxCallerTypes == 1   \* entries of the caller's logicalTypes option

(***************************************************************************)
(* Sequences and strings.                                                  *)
(***************************************************************************)
Undefined == "undefined"

Range(s) == {s[i] : i \in DOMAIN s}

\* The index of the first occurrence of atom a in s at or after i, 0 if none.
RECURSIVE IndexFrom(_, _, _)
IndexFrom(s, a, i) ==
  IF i > Len(s) THEN 0
  ELSE IF s[i] = a THEN i
  ELSE IndexFrom(s, a, i + 1)

\* String.prototype.split(sep): the pieces of s between the occurrences of sep.
RECURSIVE Split(_, _)
Split(s, sep) ==
  LET k == IndexFrom(s, sep, 1)
  IN IF k = 0 THEN <<s>>
     ELSE <<SubSeq(s, 1, k - 1)>> \o Split(SubSeq(s, k + 1, Len(s)), sep)

\* String.prototype.replace(pat, ''): s without the first occurrence of pat.
ReplaceFirst(s, pat) ==
  LET k == IndexFrom(s, pat, 1)
  IN IF k = 0 THEN s
     ELSE SubSeq(s, 1, k - 1) \o SubSeq(s, k + 1, Len(s))

\* array[i] with JavaScript's 0-based index: undefined past the end.
At(arr, i) == IF i + 1 \in DOMAIN arr THEN arr[i + 1] ELSE <<Undefined>>

(***************************************************************************)
(* Numbers: doubles that hold integers.                                    *)
(***************************************************************************)
SetMax(S) == CHOOSE m \in S : \A x \in S : x <= m
SetMin(S) == CHOOSE m \in S : \A x \in S : m <= x

\* The literal 1.
JsOne == [neg |-> FALSE, bits |-> {0}]

\* bits + 2^p, with the carry.
AddBit(bits, p) ==
  LET q == CHOOSE c \in p .. (SetMax(bits \cup {p}) + 1) :
             c \notin bits /\ \A r \in p .. (c - 1) : r \in bits
  IN (bits \ (p .. (q - 1))) \cup {q}

\* IEEE 754 binary64, round to nearest, ties to even: 53 significant bits.
RoundToDouble(bits) ==
  IF bits = {} THEN bits
  ELSE LET top == SetMax(bits)
           low == top - 52
           kept == {b \in bits : b >= low}
           half == (low - 1) \in bits
           sticky == \E b \in bits : b < low - 1
       IN IF half /\ (sticky \/ low \in kept) THEN AddBit(kept, low) ELSE kept

\* The operator ** on 2 and a small exponent: exact.
JsPow2(e) == [neg |-> FALSE, bits |-> {e}]

\* x - 1 for a positive x: the exact difference, rounded to a double.
JsMinusOne(x) ==
  LET m == SetMin(x.bits)
      exact == (x.bits \ {m}) \cup (0 .. (m - 1))
  IN [neg |-> x.neg, bits |-> RoundToDouble(exact)]

\* Unary minus: exact.
JsNeg(x) == [x EXCEPT !.neg = ~@]

(***************************************************************************)
(* Type nodes: what avro.Type.forSchema resolves a schema to (the library  *)
(* is outside the repository, so a schema is given as its resolved tree).  *)
(* ctor is type.constructor.name; a logical node is an instance of one of  *)
(* the anonymous classes of logicalTypeFakeClasses, which extend           *)
(* LogicalType, and its typeName is 'logical:' followed by its name.       *)
(***************************************************************************)
PrimitiveNames == {"Null", "Boolean", "Int", "Long", "Float", "Double", "String", "Bytes"}

PrimitiveType(n) == [ctor |-> <<n, "Type">>]
FixedType(size) == [ctor |-> <<"Fixed", "Type">>, size |-> size]
EnumType(symbols) == [ctor |-> <<"Enum", "Type">>, symbols |-> symbols]
ArrayType(itemsType) == [ctor |-> <<"Array", "Type">>, itemsType |-> itemsType]
MapType(valuesType) == [ctor |-> <<"Map", "Type">>, valuesType |-> valuesType]
RecordType(fields) == [ctor |-> <<"Record", "Type">>, fields |-> fields]
UnwrappedUnionType(types) == [ctor |-> <<"UnwrappedUnion", "Type">>, types |-> types]
WrappedUnionType(types) == [ctor |-> <<"WrappedUnion", "Type">>, types |-> types]
LogicalType(name) ==
  [ctor |-> <<>>, extends |-> "LogicalType", typeName |-> <<"logical", ":">> \o name]

InstanceOfLogicalType(type) == "extends" \in DOMAIN type
IsA(type, n) == type.ctor = <<n, "Type">>

\* A field of a record: defaultValue() returns dflt, undefined when the field
\* declares none.
Field(name, type, dflt) == [name |-> name, type |-> type, dflt |-> dflt]

\* Logical-type names.
Decimal == <<"decimal">>
Date == <<"date">>
TimestampMillis == <<"timestamp-millis">>
Uuid == <<"uuid">>
ColonName == <<"a", ":", "b">>
Unregistered == <<"nope">>
LogicalNames == {Decimal, Date, TimestampMillis, Uuid, ColonName, Unregistered}

\* The values a field of the given type may declare as its default, as
\* JavaScript literals (a union's default is one of its first branch).
RECURSIVE DefaultsOf(_)
DefaultsOf(type) ==
  IF InstanceOfLogicalType(type) THEN {"0", "1"}
  ELSE IF type.ctor[1] \in {"Int", "Long", "Float", "Double"} THEN {"0", "1"}
  ELSE IF IsA(type, "Boolean") THEN {"false", "true"}
  ELSE IF IsA(type, "String") THEN {"''", "'s'"}
  ELSE IF type.ctor[1] \in {"Bytes", "Fixed"} THEN {"''"}
  ELSE IF IsA(type, "Null") THEN {"null"}
  ELSE IF IsA(type, "Enum") THEN {type.symbols[1]}
  ELSE IF IsA(type, "Array") THEN {"[]"}
  ELSE IF type.ctor[1] \in {"UnwrappedUnion", "WrappedUnion"} THEN DefaultsOf(type.types[1])
  ELSE {"{}"}

\* The leaves of a type tree.
Leaves ==
  {PrimitiveType(n) : n \in PrimitiveNames}
    \cup {FixedType(size) : size \in 1 .. MaxSize}
    \cup {EnumType(symbols) : symbols \in {<<"A">>, <<"B", "A">>}}
    \cup {MapType(PrimitiveType("String"))}
    \cup {LogicalType(n) : n \in LogicalNames}

\* The records with the given field names, in that order, over the given types.
RecordsOver(names, types) ==
  LET options == {<<t, d>> : t \in types, d \in {"0", "1", "false", "true", "''", "'s'",
                                                "null", "[]", "{}", "A", "B", Undefined}}
      legal == {o \in options : o[2] = Undefined \/ o[2] \in DefaultsOf(o[1])}
  IN {RecordType([i \in DOMAIN names |-> Field(names[i], c[i][1], c[i][2])]) :
        c \in [DOMAIN names -> legal]}

UnionsOver(types) ==
  UNION {{UnwrappedUnionType(m), WrappedUnionType(m)} :
           m \in UNION {[1 .. n -> types] : n \in 2 .. MaxMembers}}

\* The nested types: composites of one level over a few leaves.
NestedLeaves ==
  {PrimitiveType("Int"), LogicalType(Uuid), MapType(PrimitiveType("String"))}
Nested ==
  NestedLeaves
    \cup {ArrayType(t) : t \in {LogicalType(Uuid)}}
    \cup RecordsOver(<<"f">>, {LogicalType(Uuid)})

\* The sequences of unique field names, __proto__ (a valid Avro name) among them.
FieldNameSeqs ==
  {s \in UNION {[1 .. n -> {"x", "y", "__proto__"}] : n \in 1 .. MaxFields} :
     /\ \A i, j \in DOMAIN s : i < j => s[i] /= s[j]
     /\ \A i \in DOMAIN s : s[i] = "y" => i > 1 /\ s[i - 1] = "x"}

\* The schemas of the model: every leaf, and arrays, unions and records over
\* the leaves (one child) or over the nested types (several children).
Schemas ==
  Leaves
    \cup {ArrayType(t) : t \in Leaves \cup Nested}
    \cup UnionsOver(Nested \cup {PrimitiveType("Null"), PrimitiveType("String"),
                                  LogicalType(Decimal)})
    \cup UNION {RecordsOver(names, IF Len(names) = 1 THEN Leaves \cup Nested ELSE Nested) :
                  names \in FieldNameSeqs}

\* The schemas of the calls that follow the first one.
LaterSchemas ==
  Nested \cup RecordsOver(<<"x", "y">>, {LogicalType(Uuid)})

(***************************************************************************)
(* Objects, references and exceptions.                                     *)
(***************************************************************************)
\* The fragment a caller's function returns, as first created.
CallerFragment == [type |-> "string", format |-> "uuid"]
Ref == [ref |-> "sharedObject"]
IsRef(v) == "ref" \in DOMAIN v

\* obj[key] = v on a fragment: the object with that own key set.
Assign(obj, key, v) ==
  [k \in DOMAIN obj \cup {key} |-> IF k = key THEN v ELSE obj[k]]

Throw(kind) == [thrown |-> kind]
IsThrow(v) == "thrown" \in DOMAIN v

\* The outcome of a call: what it returned or threw, and the shared object after it.
Outcome(val, heap) == [val |-> val, heap |-> heap]

\* An object literal {} used as a dictionary: its own keys in insertion order,
\* and its prototype when one was set (<<>> stands for Object.prototype).
EmptyObject == [own |-> <<>>, proto |-> <<>>]
OwnKeys(obj) == [i \in DOMAIN obj.own |-> obj.own[i].key]

\* obj[key] = v.  The key __proto__ is the accessor of Object.prototype: given
\* an object it sets the prototype and creates no own key.
PutProp(obj, key, v) ==
  IF key = "__proto__" THEN [obj EXCEPT !.proto = <<v>>]
  ELSE IF \E i \in DOMAIN obj.own : obj.own[i].key = key
       THEN [obj EXCEPT !.own = [i \in DOMAIN @ |->
                                   IF @[i].key = key THEN [key |-> key, value |-> v] ELSE @[i]]]
       ELSE [obj EXCEPT !.own = Append(@, [key |-> key, value |-> v])]

\* obj[key]: <<the value>>, or <<>> for undefined.  No key of the model but
\* __proto__ is a property of Object.prototype or of a fragment set as
\* prototype, so any other key is found among the own keys or not at all.
GetProp(obj, key) ==
  IF key = "__proto__" THEN obj.proto
  ELSE LET hits == {i \in DOMAIN obj.own : obj.own[i].key = key}
       IN IF hits = {} THEN <<>> ELSE <<obj.own[CHOOSE i \in hits : TRUE].value>>

\* What an observer reads in a fragment: references followed to the shared object.
RECURSIVE View(_, _)
View(v, heap) ==
  IF IsRef(v) THEN heap
  ELSE IF IsThrow(v) THEN v
  ELSE IF "items" \in DOMAIN v THEN [v EXCEPT !.items = View(@, heap)]
  ELSE IF "oneOf" \in DOMAIN v THEN [v EXCEPT !.oneOf = [i \in DOMAIN @ |-> View(@[i], heap)]]
  ELSE IF "properties" \in DOMAIN v
    THEN [v EXCEPT !.properties =
            [own |-> [i \in DOMAIN @.own |->
                        [key |-> @.own[i].key, value |-> View(@.own[i].value, heap)]],
             proto |-> [i \in DOMAIN @.proto |-> View(@.proto[i], heap)]]]
  ELSE v

(***************************************************************************)
(* The built-in logical-type converters and the registry.                  *)
(***************************************************************************)
decimal(type) == [type |-> "number"]

timestampMillis(type) ==
  [type |-> "integer", minimum |-> JsOne, maximum |-> JsMinusOne(JsPow2(63))]

date(type) ==
  [type |-> "integer", minimum |-> JsOne, maximum |-> JsMinusOne(JsPow2(63))]

defaultLogicalTypes ==
  [n \in {Decimal, Date, TimestampMillis} |->
     IF n = Decimal THEN "decimal" ELSE IF n = Date THEN "date" ELSE "timestampMillis"]

\* Object.assign({}, a, b): the keys of both, b's value where both have the key.
ObjectAssign(a, b) ==
  [k \in DOMAIN a \cup DOMAIN b |-> IF k \in DOMAIN b THEN b[k] ELSE a[k]]

\* The functions a caller registers: one that builds a new object on every
\* call, one that returns the same object on every call.
CallerFunctions == {"returnsNewObject", "returnsSameObject"}
CallerNames == {Decimal, Uuid, ColonName}

\* The caller's options.logicalTypes ({} when the caller gives none).
CallerLogicalTypes ==
  UNION {[names -> CallerFunctions] :
           names \in {n \in SUBSET CallerNames : Cardinality(n) <= MaxCallerTypes}}

setupLogicalTypes(logicalTypes) ==
  LET convertors == ObjectAssign(defaultLogicalTypes, logicalTypes)
  IN [logicalTypeConvertors |-> convertors,
      logicalTypeFakeClasses |-> DOMAIN convertors]

\* A call of a registered function on a logical node.
CallLogical(fn, type, heap) ==
  IF fn = "decimal" THEN Outcome(decimal(type), heap)
  ELSE IF fn = "date" THEN Outcome(date(type), heap)
  ELSE IF fn = "timestampMillis" THEN Outcome(timestampMillis(type), heap)
  ELSE IF fn = "returnsNewObject" THEN Outcome(CallerFragment, heap)
  ELSE Outcome(Ref, heap)

(***************************************************************************)
(* The kind converters.  Each returns an Outcome; `registry` is            *)
(* this.logicalTypeConvertors.                                             *)
(***************************************************************************)
\* The methods of the class that this[fnName] can find.
Methods ==
  {<<"convert", n>> : n \in {"Record", "Enum", "Array", "UnwrappedUnion", "WrappedUnion",
                            "Fixed", "Bytes", "Float", "Double", "Boolean", "String",
                            "Null", "Long", "Int", "Union", "Buffer"}}

\* Object.assign of the pattern with maxLength and minLength, each only when
\* its argument is not undefined (<<>> stands for an argument left out).
convertBuffer(min, max) ==
  LET base == [type |-> "string", pattern |-> "^[\\u0000-\\u00ff]*$"]
      withMax == IF max /= <<>> THEN Assign(base, "maxLength", max[1]) ELSE base
  IN IF min /= <<>> THEN Assign(withMax, "minLength", min[1]) ELSE withMax

convertFixed(type) == convertBuffer(<<type.size>>, <<type.size>>)
convertBytes == convertBuffer(<<>>, <<>>)
convertFloat == [type |-> "number"]
convertDouble == convertFloat
convertBoolean == [type |-> "boolean"]
convertString == [type |-> "string"]
convertNull == [type |-> "null"]
convertLong ==
  [type |-> "integer", minimum |-> JsNeg(JsPow2(63)), maximum |-> JsMinusOne(JsPow2(63))]
convertInt ==
  [type |-> "integer", minimum |-> JsNeg(JsPow2(31)), maximum |-> JsMinusOne(JsPow2(31))]
convertEnum(type) == [type |-> "string", enum |-> [i \in DOMAIN type.symbols |-> type.symbols[i]]]

\* this.resolveConverter(type)(type)
RECURSIVE Convert(_, _, _)

convertArray(registry, type, heap) ==
  LET items == Convert(registry, type.itemsType, heap)
  IN IF IsThrow(items.val) THEN items
     ELSE Outcome([type |-> "array", items |-> items.val], items.heap)

\* type.types.map(...): the members from i on, converted in order; an
\* exception ends the map.
RECURSIVE MapMembers(_, _, _, _, _)
MapMembers(registry, types, i, done, heap) ==
  IF i > Len(types) THEN Outcome([mapped |-> done], heap)
  ELSE LET c == Convert(registry, types[i], heap)
       IN IF IsThrow(c.val) THEN c
          ELSE MapMembers(registry, types, i + 1, Append(done, c.val), c.heap)

convertUnion(registry, type, heap) ==
  LET members == MapMembers(registry, type.types, 1, <<>>, heap)
  IN IF IsThrow(members.val) THEN members
     ELSE Outcome([oneOf |-> members.val.mapped], members.heap)

convertUnwrappedUnion(registry, type, heap) == convertUnion(registry, type, heap)
convertWrappedUnion(registry, type, heap) == convertUnion(registry, type, heap)

\* The body of the forEach of convertRecord for one field: the property is
\* set, then the object read back from it gets the default, or the name is
\* pushed to required.  The object read back is the one convert returned:
\* the caller's shared object when convert returned that.
FieldStep(registry, field, schema, heap) ==
  LET c == Convert(registry, field.type, heap)
  IN IF IsThrow(c.val) THEN c
     ELSE IF field.dflt /= Undefined
       THEN IF IsRef(c.val)
            THEN Outcome([schema EXCEPT !.properties = PutProp(@, field.name, c.val)],
                         Assign(c.heap, "default", field.dflt))
            ELSE Outcome([schema EXCEPT !.properties =
                            PutProp(@, field.name, Assign(c.val, "default", field.dflt))],
                         c.heap)
       ELSE Outcome([schema EXCEPT !.properties = PutProp(@, field.name, c.val),
                                   !.required = Append(@, field.name)],
                    c.heap)

\* A forEach that catches the exception of a field and returns the record
\* built so far.
RECURSIVE ForEachFieldKeepingPartial(_, _, _, _, _)
ForEachFieldKeepingPartial(registry, fields, i, schema, heap) ==
  IF i > Len(fields) THEN Outcome(schema, heap)
  ELSE LET step == FieldStep(registry, fields[i], schema, heap)
       IN IF IsThrow(step.val) THEN Outcome(schema, step.heap)
          ELSE ForEachFieldKeepingPartial(registry, fields, i + 1, step.val, step.heap)

\* type.fields.forEach(...): the fields from i on; an exception ends it.
RECURSIVE ForEachField(_, _, _, _, _)
ForEachField(registry, fields, i, schema, heap) ==
  IF i > Len(fields) THEN Outcome(schema, heap)
  ELSE LET step == FieldStep(registry, fields[i], schema, heap)
       IN IF IsThrow(step.val) THEN step
          ELSE ForEachField(registry, fields, i + 1, step.val, step.heap)

convertRecord(registry, type, heap) ==
  ForEachField(registry, type.fields, 1,
               [type |-> "object", properties |-> EmptyObject, required |-> <<>>], heap)

\* type.typeName.split(':')[1]: the key looked up in the registry.
LookupKey(type) == At(Split(type.typeName, ":"), 1)

\* The converter of a node: a registered function for a logical node, the
\* method convert<Kind> otherwise; .bind on undefined throws a TypeError.
\* (No logical-type name of the model is a property of Object.prototype, so
\* the registry holds a name exactly when it has it as an own key.)
resolveConverter(registry, type) ==
  IF InstanceOfLogicalType(type)
  THEN LET key == LookupKey(type)
       IN IF key \in DOMAIN registry THEN [logical |-> registry[key]]
          ELSE Throw("TypeError")
  ELSE LET fnName == <<"convert">> \o ReplaceFirst(type.ctor, "Type")
       IN IF fnName \in Methods THEN [method |-> fnName[2]] ELSE Throw("TypeError")

Convert(registry, type, heap) ==
  LET converter == resolveConverter(registry, type)
  IN IF IsThrow(converter) THEN Outcome(converter, heap)
     ELSE IF "logical" \in DOMAIN converter THEN CallLogical(converter.logical, type, heap)
     ELSE CASE converter.method = "Record" -> convertRecord(registry, type, heap)
            [] converter.method = "Enum" -> Outcome(convertEnum(type), heap)
            [] converter.method = "Array" -> convertArray(registry, type, heap)
            [] converter.method = "UnwrappedUnion" -> convertUnwrappedUnion(registry, type, heap)
            [] converter.method = "WrappedUnion" -> convertWrappedUnion(registry, type, heap)
            [] converter.method = "Fixed" -> Outcome(convertFixed(type), heap)
            [] converter.method = "Bytes" -> Outcome(convertBytes, heap)
            [] converter.method = "Float" -> Outcome(convertFloat, heap)
            [] converter.method = "Double" -> Outcome(convertDouble, heap)
            [] converter.method = "Boolean" -> Outcome(convertBoolean, heap)
            [] converter.method = "String" -> Outcome(convertString, heap)
            [] converter.method = "Null" -> Outcome(convertNull, heap)
            [] converter.method = "Long" -> Outcome(convertLong, heap)
            [] converter.method = "Int" -> Outcome(convertInt, heap)

(***************************************************************************)
(* The converter instance and its callers.                                 *)
(***************************************************************************)
VARIABLES
  options,                  \* options.logicalTypes the instance was constructed with
  logicalTypeConvertors,    \* this.logicalTypeConvertors
  logicalTypeFakeClasses,   \* the keys of this.logicalTypeFakeClasses
  sharedObject,             \* the object a caller's returnsSameObject returns
  schema,                   \* the type tree of the current call
  returned,                 \* <<what the current call returned or threw>>, <<>> before
  kept,                     \* <<the fragment of the call before, and what was read in it>>
  pc                        \* "ready": the call is to be made; "returned": it was made

vars == <<options, logicalTypeConvertors, logicalTypeFakeClasses, sharedObject,
          schema, returned, kept, pc>>

\* new Avro2JSONSchemaConverter(options), and the schema of the first call.
Init ==
  /\ options \in CallerLogicalTypes
  /\ logicalTypeConvertors = setupLogicalTypes(options).logicalTypeConvertors
  /\ logicalTypeFakeClasses = setupLogicalTypes(options).logicalTypeFakeClasses
  /\ sharedObject = CallerFragment
  /\ schema \in Schemas
  /\ returned = <<>>
  /\ kept = <<>>
  /\ pc = "ready"

\* convert(schema), the type tree being what avro.Type.forSchema resolved.
ConvertCall ==
  /\ pc = "ready"
  /\ LET outcome == Convert(logicalTypeConvertors, schema, sharedObject)
     IN /\ returned' = <<outcome.val>>
        /\ sharedObject' = outcome.heap
  /\ pc' = "returned"
  /\ UNCHANGED <<options, logicalTypeConvertors, logicalTypeFakeClasses, schema, kept>>

\* The caller keeps the fragment it got, if any, and picks the next schema.
\* Sequences of calls are made on the schemas of LaterSchemas.
NextSchema ==
  /\ pc = "returned"
  /\ schema \in LaterSchemas
  /\ \E s \in LaterSchemas : schema' = s
  /\ kept' = IF IsThrow(returned[1]) THEN <<>>
             ELSE <<[frag |-> returned[1], seen |-> View(returned[1], sharedObject)]>>
  /\ returned' = <<>>
  /\ pc' = "ready"
  /\ UNCHANGED <<options, logicalTypeConvertors, logicalTypeFakeClasses, sharedObject>>

Next == ConvertCall \/ NextSchema

Spec == Init /\ [][Next]_vars

(***************************************************************************)
(* Vocabulary of the properties.                                           *)
(***************************************************************************)
Called == pc = "returned"
Succeeded == Called /\ ~IsThrow(returned[1])

\* What the caller reads in the fragment the current call returned.
Seen == View(returned[1], sharedObject)

\* What a freshly constructed converter with the same options returns for a
\* type converted on its own.
FreshView(type) ==
  LET outcome == Convert(setupLogicalTypes(options).logicalTypeConvertors, type,
                         CallerFragment)
  IN View(outcome.val, outcome.heap)

IsUnion(type) == IsA(type, "UnwrappedUnion") \/ IsA(type, "WrappedUnion")

\* The nodes directly below a node that has a converter to visit them.
Children(type) ==
  IF InstanceOfLogicalType(type) THEN <<>>
  ELSE IF IsA(type, "Array") THEN <<type.itemsType>>
  ELSE IF IsUnion(type) THEN type.types
  ELSE IF IsA(type, "Record") THEN [i \in DOMAIN type.fields |-> type.fields[i].type]
  ELSE <<>>

\* The integers 2^e, 2^e - 1 and -n themselves, without rounding.
ExactPow2(e) == [neg |-> FALSE, bits |-> {e}]
ExactPow2Minus1(e) == [neg |-> FALSE, bits |-> 0 .. (e - 1)]
ExactNeg(n) == [n EXCEPT !.neg = ~@]

\* The text of s after its first sep.
TextAfterFirst(s, sep) == SubSeq(s, IndexFrom(s, sep, 1) + 1, Len(s))

WithoutDefault(fragment) == [k \in DOMAIN fragment \ {"default"} |-> fragment[k]]

\* C1: in the properties and the required list of a converted record, a
\* field's name is required exactly when the field has no default, and the
\* field's fragment carries a default exactly when the field has one, which
\* is then that default.
RequiredDefaultLaw ==
  (Succeeded /\ IsA(schema, "Record")) =>
    \A i \in DOMAIN schema.fields :
      LET field == schema.fields[i]
          property == GetProp(Seen.properties, field.name)
      IN /\ (field.name \in Range(Seen.required)) <=> (field.dflt = Undefined)
         /\ property /= <<>>
         /\ ("default" \in DOMAIN property[1]) <=> (field.dflt /= Undefined)
         /\ field.dflt /= Undefined => property[1].default = field.dflt

\* The trees built only from the fifteen structural tags.
RECURSIVE StructuralOnly(_)
StructuralOnly(type) ==
  /\ ~InstanceOfLogicalType(type)
  /\ IF IsA(type, "Map") THEN StructuralOnly(type.valuesType)
     ELSE \A i \in DOMAIN Children(type) : StructuralOnly(Children(type)[i])

\* C2: a node of any of the fifteen structural tags has a converter, and the
\* conversion of a tree built only from those tags succeeds.
ClosedDispatch ==
  (Called /\ StructuralOnly(schema)) =>
    /\ ~IsThrow(resolveConverter(logicalTypeConvertors, schema))
    /\ ~IsThrow(returned[1])

\* C3: the conversion of a logical node whose logical-type name has no entry
\* in the registry ends in UnknownLogicalTypeError.
UnknownLogicalNameError ==
  (Called /\ InstanceOfLogicalType(schema)
          /\ TextAfterFirst(schema.typeName, ":") \notin DOMAIN logicalTypeConvertors) =>
    returned[1] = Throw("UnknownLogicalTypeError")

\* C4: the key looked up for a logical node is the whole text of its
\* typeName after the first colon, so the conversion finds the entry
\* registered under that text.
LogicalNameExtraction ==
  (Called /\ InstanceOfLogicalType(schema)) =>
    /\ LookupKey(schema) = TextAfterFirst(schema.typeName, ":")
    /\ TextAfterFirst(schema.typeName, ":") \in DOMAIN logicalTypeConvertors
         => ~IsThrow(returned[1])

\* C5: the bounds of an int are exactly -2^31 and 2^31 - 1, those of a long
\* exactly -2^63 and 2^63 - 1.
IntegerBoundLaw ==
  /\ (Called /\ IsA(schema, "Int")) =>
       /\ Seen.minimum = ExactNeg(ExactPow2(31))
       /\ Seen.maximum = ExactPow2Minus1(31)
  /\ (Called /\ IsA(schema, "Long")) =>
       /\ Seen.minimum = ExactNeg(ExactPow2(63))
       /\ Seen.maximum = ExactPow2Minus1(63)

\* C6: the conversion of a union, of either tag, returns oneOf of the
\* fragments of its members, each as converted on its own, in their order.
UnionConvergence ==
  (Called /\ IsUnion(schema)) =>
    LET alone == [i \in DOMAIN schema.types |-> FreshView(schema.types[i])]
    IN IF \E i \in DOMAIN alone : IsThrow(alone[i])
       THEN IsThrow(returned[1])
       ELSE Seen = [oneOf |-> alone]

\* C7: the registry is the built-ins with the caller's entries over them, and
\* the conversion of a logical node returns what the caller's function for
\* its name returns when the caller gave one, what the built-in returns
\* otherwise.
RegistryOverride ==
  /\ DOMAIN logicalTypeConvertors = DOMAIN defaultLogicalTypes \cup DOMAIN options
  /\ \A n \in DOMAIN logicalTypeConvertors :
       logicalTypeConvertors[n] = IF n \in DOMAIN options THEN options[n]
                                  ELSE defaultLogicalTypes[n]
  /\ (Called /\ InstanceOfLogicalType(schema)) =>
       LET n == TextAfterFirst(schema.typeName, ":")
       IN /\ n \in DOMAIN options =>
               returned[1] = CallLogical(options[n], schema, sharedObject).val
          /\ n \in DOMAIN defaultLogicalTypes \ DOMAIN options =>
               returned[1] = CallLogical(defaultLogicalTypes[n], schema, sharedObject).val

\* C8: the properties of a converted record have exactly the field names as
\* keys, in declaration order; each is, its default aside, the fragment of
\* the field's type converted on its own; required lists the names of the
\* fields without default in declaration order.
RecordShape ==
  (Succeeded /\ IsA(schema, "Record")) =>
    LET fields == schema.fields
        undefaulted == SelectSeq(fields, LAMBDA f : f.dflt = Undefined)
    IN /\ OwnKeys(Seen.properties) = [i \in DOMAIN fields |-> fields[i].name]
       /\ \A i \in DOMAIN fields :
            LET property == GetProp(Seen.properties, fields[i].name)
            IN /\ property /= <<>>
               /\ WithoutDefault(property[1]) = FreshView(fields[i].type)
       /\ Seen.required = [i \in DOMAIN undefaulted |-> undefaulted[i].name]

\* A node for which resolveConverter finds no converter, and a tree with one.
NodeFails(type) == IsThrow(resolveConverter(logicalTypeConvertors, type))
RECURSIVE SomeNodeFails(_)
SomeNodeFails(type) ==
  \/ NodeFails(type)
  \/ \E i \in DOMAIN Children(type) : SomeNodeFails(Children(type)[i])

\* A fragment that holds a fragment for every node of the tree.
RECURSIVE Whole(_, _)
Whole(type, fragment) ==
  /\ ~IsThrow(fragment)
  /\ IF InstanceOfLogicalType(type) THEN TRUE
     ELSE IF IsA(type, "Array")
       THEN "items" \in DOMAIN fragment /\ Whole(type.itemsType, fragment.items)
     ELSE IF IsUnion(type)
       THEN /\ "oneOf" \in DOMAIN fragment
            /\ Len(fragment.oneOf) = Len(type.types)
            /\ \A i \in DOMAIN type.types : Whole(type.types[i], fragment.oneOf[i])
     ELSE IF IsA(type, "Record")
       THEN /\ "properties" \in DOMAIN fragment
            /\ \A i \in DOMAIN type.fields :
                 LET property == GetProp(fragment.properties, type.fields[i].name)
                 IN property /= <<>> /\ Whole(type.fields[i].type, property[1])
     ELSE TRUE

\* C9: a call on a tree with a node that cannot be converted, wherever it is
\* and whatever was converted before it, ends in an error and returns no
\* fragment; a call that returns a fragment has converted every node.
AllOrNothing ==
  Called =>
    IF SomeNodeFails(schema) THEN IsThrow(returned[1])
    ELSE Whole(schema, Seen)

\* A call that failed on a node below the second field of a record, after
\* the first field was converted.
AllOrNothingWitness ==
  /\ Called
  /\ IsThrow(returned[1])
  /\ IsA(schema, "Record")
  /\ Len(schema.fields) >= 2
  /\ ~SomeNodeFails(schema.fields[1].type)
  /\ ~NodeFails(schema.fields[2].type)
  /\ SomeNodeFails(schema.fields[2].type)

\* C10: no call changes the registry, every call returns what a freshly
\* constructed converter with the same options returns for its schema, and
\* the fragment an earlier call returned reads as it did when it was returned.
CallIndependence ==
  /\ logicalTypeConvertors = setupLogicalTypes(options).logicalTypeConvertors
  /\ Called => Seen = FreshView(schema)
  /\ kept /= <<>> => View(kept[1].frag, sharedObject) = kept[1].seen

=============================================================================
